---- MODULE Spec2Model ----
(***************************************************************************)
(* The mock users/roles API of server/src/api.ts: the in-memory store       *)
(* (data.users, data.roles), the latency / fault-injection middleware       *)
(* (logWithNetworkEffects) and the ten route handlers.                      *)
(*                                                                          *)
(* A route handler runs synchronously, so one handler is one step.  A       *)
(* request that the middleware delays waits in `pending` until its timer    *)
(* fires; timers of different requests fire in any order.  The content of a *)
(* request is read by its route handler only (express.json() is installed   *)
(* after the middleware), so it is drawn when the handler runs.             *)
(***************************************************************************)
EXTENDS Integers, Sequences, FiniteSets, TLC

(***************************************************************************)
(* Bounds of the model.                                                     *)
(***************************************************************************)
MaxTime == 2
MaxCreated == 1
MaxPending == 2
MaxRequests == 3
PageSize == 2

(***************************************************************************)
(* JSON values as they arrive in a request body and as the handlers store   *)
(* them.  Text is a sequence of one-character strings, so that lowercasing  *)
(* and substring search are computed; an absent property is Undefined.      *)
(***************************************************************************)
Undefined == [t |-> "undefined"]
Null == [t |-> "null"]
Bool(b) == [t |-> "bool", v |-> b]
Num(n) == [t |-> "num", v |-> n]
Str(s) == [t |-> "str", v |-> s]
NaN == [t |-> "nan"]

\* JavaScript's ToBoolean, as applied by `!x`, `x && ...` and `x || ...`.
Truthy(x) ==
  CASE x.t = "undefined" -> FALSE
    [] x.t = "null" -> FALSE
    [] x.t = "bool" -> x.v
    [] x.t = "num" -> x.v # 0
    [] x.t = "nan" -> FALSE
    [] x.t = "str" -> x.v # <<>>

\* A property of a parsed body or query: undefined when absent.
Get(obj, field) == IF field \in DOMAIN obj THEN obj[field] ELSE Undefined

\* String.prototype.toLowerCase on the letters the model uses.
LowerChar(c) ==
  CASE c = "E" -> "e"
    [] c = "S" -> "s"
    [] c = "M" -> "m"
    [] c = "B" -> "b"
    [] c = "T" -> "t"
    [] OTHER -> c

toLowerCase(s) == [i \in 1..Len(s) |-> LowerChar(s[i])]

\* String.prototype.includes
includes(s, sub) ==
  \E i \in 0..(Len(s) - Len(sub)) : SubSeq(s, i + 1, i + Len(sub)) = sub

\* A mutant of Ceil: Math.floor in place of Math.ceil.
Ceil_Floor(a, b) == a \div b

\* Math.ceil(a / b) for a >= 0, b > 0
Ceil(a, b) == (a + b - 1) \div b

\* Array.prototype.find, given the indices of the matching items: the index of
\* the first match, 0 for undefined.
find(matches) ==
  IF matches = {} THEN 0 ELSE CHOOSE i \in matches : \A j \in matches : i <= j

(***************************************************************************)
(* Texts and identifiers of the model.                                      *)
(***************************************************************************)
En == <<"E", "n">>
en == <<"e", "n">>
Su == <<"S", "u">>
Ma == <<"M", "a">>
Bo == <<"B", "o">>
Ti == <<"T", "i">>
R1 == <<"r", "1">>
R2 == <<"r", "2">>
U1 == <<"u", "1">>
U2 == <<"u", "2">>
NotAnId == <<"x">>

\* The seed of ./data: two roles, of which the second is the default, and
\* two users, one in each role.
rawData ==
  [users |-> <<
     [id |-> U1, createdAt |-> 0, updatedAt |-> 0, first |-> Str(Ma), last |-> Str(Ti),
      roleId |-> R1, photo |-> 0],
     [id |-> U2, createdAt |-> 0, updatedAt |-> 0, first |-> Str(Bo), last |-> Str(Ti),
      roleId |-> R2, photo |-> 0] >>,
   roles |-> <<
     [id |-> R1, createdAt |-> 0, updatedAt |-> 0, name |-> Str(En),
      description |-> Str(<<"b">>), isDefault |-> Bool(FALSE)],
     [id |-> R2, createdAt |-> 0, updatedAt |-> 0, name |-> Str(Su),
      description |-> Str(<<"s">>), isDefault |-> Bool(TRUE)] >>]

\* resetData(): fresh copies of the seed.
resetData == [users |-> rawData.users, roles |-> rawData.roles]

\* A mutant of randomUUID: the identifier of a seed user is issued again.
randomUUID_Repeats(k) == U1

\* randomUUID(): the k-th identifier issued; it never repeats.
randomUUID(k) == <<"n", ToString(k)>>

(***************************************************************************)
(* Query engine.                                                            *)
(***************************************************************************)
searchFields == [users |-> <<"first", "last">>, roles |-> <<"name", "description">>]

\* data.sort(sortBy) with sortBy(a, b) = b.createdAt.localeCompare(a.createdAt):
\* a stable sort, newest first.  Insert puts x behind every item that is not older.
\* A mutant of Insert: the order of sortBy is reversed, oldest first.
RECURSIVE Insert_OldestFirst(_, _)
Insert_OldestFirst(x, sorted) ==
  IF sorted = <<>> THEN <<x>>
  ELSE IF Head(sorted).createdAt <= x.createdAt
       THEN <<Head(sorted)>> \o Insert_OldestFirst(x, Tail(sorted))
       ELSE <<x>> \o sorted

RECURSIVE Insert(_, _)
Insert(x, sorted) ==
  IF sorted = <<>> THEN <<x>>
  ELSE IF Head(sorted).createdAt >= x.createdAt
       THEN <<Head(sorted)>> \o Insert(x, Tail(sorted))
       ELSE <<x>> \o sorted

RECURSIVE sort(_)
sort(arr) ==
  IF arr = <<>> THEN <<>>
  ELSE Insert(arr[Len(arr)], sort(SubSeq(arr, 1, Len(arr) - 1)))

\* A mutant of fullTextSearch: the value of the field is not lowercased.
fullTextSearch_FieldAsIs(arr, fields, search) ==
  LET term == toLowerCase(search)
      Match(item) ==
        \E k \in 1..Len(fields) : includes(item[fields[k]].v, term)
  IN SelectSeq(arr, Match)

\* Object.prototype.toString as called on a stored field: null and undefined
\* have no such method, and the call throws a TypeError.
Nullish(x) == x.t \in {"null", "undefined"}

toString(x) ==
  CASE x.t = "str" -> x.v
    [] x.t = "bool" -> IF x.v THEN <<"t", "r", "u", "e">> ELSE <<"f", "a", "l", "s", "e">>
    [] x.t = "num" -> <<ToString(x.v)>>
    [] x.t = "nan" -> <<"N", "a", "N">>

\* The loop of the filter callback over the fields of one item: the first
\* field at which it ends, by a match or by a TypeError; 0 when it runs out.
firstField(item, fields, term) ==
  find({k \in 1..Len(fields) :
          \/ Nullish(item[fields[k]])
          \/ includes(toLowerCase(toString(item[fields[k]])), term)})

fullTextSearch(arr, fields, search) ==
  LET term == toLowerCase(search)
      Match(item) ==
        LET k == firstField(item, fields, term)
        IN k # 0 /\ ~Nullish(item[fields[k]])
  IN SelectSeq(arr, Match)

\* Whether fullTextSearch throws: the loop of some item reaches a field that
\* holds null before any of its fields matched.
searchThrows(arr, fields, search) ==
  \E i \in 1..Len(arr) :
    LET k == firstField(arr[i], fields, toLowerCase(search))
    IN k # 0 /\ Nullish(arr[i][fields[k]])

\* The digits of a decimal numeral, most significant first; -1 when a
\* character is no digit.
DigitOf(c) ==
  CASE c = "0" -> 0 [] c = "1" -> 1 [] c = "2" -> 2 [] c = "3" -> 3 [] c = "4" -> 4
    [] c = "5" -> 5 [] c = "6" -> 6 [] c = "7" -> 7 [] c = "8" -> 8 [] c = "9" -> 9
    [] OTHER -> -1

RECURSIVE Digits(_)
Digits(s) ==
  IF s = <<>> THEN 0 ELSE 10 * Digits(SubSeq(s, 1, Len(s) - 1)) + DigitOf(s[Len(s)])

\* Unary plus on a query string: its number, NaN when it is no numeral.
ToNumber(s) ==
  LET neg == s # <<>> /\ s[1] = "-"
      ds == IF neg THEN Tail(s) ELSE s
  IN IF s = <<>> THEN Num(0)
     ELSE IF ds = <<>> \/ \E i \in 1..Len(ds) : DigitOf(ds[i]) = -1 THEN NaN
     ELSE Num(IF neg THEN 0 - Digits(ds) ELSE Digits(ds))

\* A mutant of slice: the item at `end` is taken too.
slice_EndIncluded(arr, start, end) ==
  LET len == Len(arr)
      from == IF start < 0 THEN (IF len + start > 0 THEN len + start ELSE 0)
              ELSE (IF start < len THEN start ELSE len)
      to == IF end < 0 THEN (IF len + end > 0 THEN len + end ELSE 0)
            ELSE (IF end < len THEN end ELSE len)
  IN SubSeq(arr, from + 1, IF to < len THEN to + 1 ELSE len)

\* Array.prototype.slice(start, end): a negative index counts from the end.
slice(arr, start, end) ==
  LET len == Len(arr)
      from == IF start < 0 THEN (IF len + start > 0 THEN len + start ELSE 0)
              ELSE (IF start < len THEN start ELSE len)
      to == IF end < 0 THEN (IF len + end > 0 THEN len + end ELSE 0)
            ELSE (IF end < len THEN end ELSE len)
  IN SubSeq(arr, from + 1, to)

\* const page = +(req.query.page || 1) || 1
pageOf(r) ==
  LET q == Get(r.query, "page")
      n == IF Truthy(q) THEN ToNumber(q.v) ELSE Num(1)
  IN IF Truthy(n) THEN n.v ELSE 1

\* getPagedData: `sorted` is the array the sort ran on, `inPlace` tells whether
\* that array is the stored collection itself (no search) or a filtered copy;
\* `thrown` tells whether the search threw before anything was sorted.
getPagedData(r, arr, fields, pageSize) ==
  LET search == Get(r.query, "search")
      inPlace == ~Truthy(search)
      found == IF inPlace THEN arr ELSE fullTextSearch(arr, fields, search.v)
      sorted == sort(found)
      page == pageOf(r)
      pages == Ceil(Len(sorted), pageSize)
      next == IF page < pages THEN Num(page + 1) ELSE Null
      prev == IF page > 1 THEN Num(page - 1) ELSE Null
  IN [thrown |-> ~inPlace /\ searchThrows(arr, fields, search.v),
      stored |-> IF inPlace THEN sorted ELSE arr,
      body |-> [data |-> slice(sorted, (page - 1) * pageSize, page * pageSize),
                next |-> next, prev |-> prev, pages |-> pages]]

(***************************************************************************)
(* Helpers of the route handlers.                                           *)
(***************************************************************************)
\* getEntity: the index of the item whose id is req.params.id, 0 for undefined.
getEntity(r, arr) ==
  find({i \in 1..Len(arr) : arr[i].id = r.params.id})

\* A mutant of updateField: the value is assigned when it differs, falsy or not.
updateField_FalsyToo(item, field, value) ==
  IF value # item[field] THEN [item EXCEPT ![field] = value] ELSE item

\* updateField: the item after `if (value && value !== item[field]) item[field] = value`;
\* the function's result (true / false) is whether the item differs from before.
updateField(item, field, value) ==
  IF Truthy(value) /\ value # item[field] THEN [item EXCEPT ![field] = value] ELSE item

\* getDefaultRole: data.roles.find((role) => role.isDefault)
getDefaultRole(roles) ==
  find({i \in 1..Len(roles) : Truthy(roles[i].isDefault)})

\* clearDefaultRole: defaultRole.isDefault = false (the caller handles undefined).
clearDefaultRole(roles) ==
  [roles EXCEPT ![getDefaultRole(roles)].isDefault = Bool(FALSE)]

\* A mutant of findRole: every roleId is taken to resolve.
findRole_FirstRole(roles, roleId) == 1

\* data.roles.find((role) => role.id === roleId), for a body's roleId.
findRole(roles, roleId) ==
  find({i \in 1..Len(roles) : roleId = Str(roles[i].id)})

\* A mutant of roleNamed: the description is compared instead of the name.
roleNamed_ByDescription(roles, name) ==
  find({i \in 1..Len(roles) : roles[i].description = name})

\* data.roles.find((role) => role.name === name) of POST /roles
roleNamed(roles, name) ==
  find({i \in 1..Len(roles) : roles[i].name = name})

\* A mutant of otherRoleNamed: the role being updated is not excluded.
otherRoleNamed_IncludingSelf(roles, name, id) ==
  find({i \in 1..Len(roles) : roles[i].name = name})

\* data.roles.find((role) => role.name === name && role.id !== id) of PATCH /roles/:id
otherRoleNamed(roles, name, id) ==
  find({i \in 1..Len(roles) : roles[i].name = name /\ roles[i].id # id})

Idle == [status |-> 0]
Message(status, text) == [status |-> status, body |-> [message |-> text]]
Ok(entity) == [status |-> 200, body |-> entity]
\* An exception in a handler: express answers 500 with its own error page.
Thrown == [status |-> 500, body |-> [error |-> "TypeError"]]

(***************************************************************************)
(* Route handlers.  Each takes the store d and the request r and gives the  *)
(* store after the handler and the response it sent: [data, res].           *)
(***************************************************************************)
\* api.get('/users')
getUsers(d, r, pageSize) ==
  LET paged == getPagedData(r, d.users, searchFields.users, pageSize)
  IN IF paged.thrown THEN [data |-> d, res |-> Thrown]
     ELSE [data |-> [d EXCEPT !.users = paged.stored], res |-> Ok(paged.body)]

\* api.get('/users/:id')
getUser(d, r) ==
  LET i == getEntity(r, d.users)
  IN [data |-> d,
      res |-> IF i = 0 THEN Message(404, "User not found") ELSE Ok(d.users[i])]

\* api.patch('/users/:id')
\* A mutant of patchUser: an id carried by the body is assigned to the user.
patchUser_AssignsId(d, r, time) ==
  LET i == getEntity(r, d.users)
      id == Get(r.body, "id")
      user == d.users[i]
      u1 == updateField(user, "first", Get(r.body, "first"))
      u2 == IF id.t = "str" THEN [u1 EXCEPT !.id = id.v] ELSE u1
      u3 == IF u2 # user THEN [u2 EXCEPT !.updatedAt = time] ELSE u2
  IN IF i = 0 THEN [data |-> d, res |-> Message(404, "User not found")]
     ELSE [data |-> [d EXCEPT !.users[i] = u3], res |-> Ok(u3)]

patchUser(d, r, time) ==
  LET i == getEntity(r, d.users)
      user == d.users[i]
      first == Get(r.body, "first")
      last == Get(r.body, "last")
      roleId == Get(r.body, "roleId")
      u1 == updateField(user, "first", first)
      u2 == updateField(u1, "last", last)
      role == findRole(d.roles, roleId)
      u3 == IF Truthy(roleId) THEN [u2 EXCEPT !.roleId = roleId.v] ELSE u2
      updated == u2 # user \/ Truthy(roleId)
      u4 == IF updated THEN [u3 EXCEPT !.updatedAt = time] ELSE u3
  IN IF i = 0 THEN [data |-> d, res |-> Message(404, "User not found")]
     ELSE IF Truthy(roleId) /\ role = 0
     THEN [data |-> [d EXCEPT !.users[i] = u2],
           res |-> Message(400, "Referenced role not found")]
     ELSE [data |-> [d EXCEPT !.users[i] = u4], res |-> Ok(u4)]

\* A mutant of postUser: the role is looked up before the fields are checked.
postUser_LookupFirst(d, r, time, id, photo) ==
  LET first == Get(r.body, "first")
      last == Get(r.body, "last")
      roleId == Get(r.body, "roleId")
      missingFields ==
        (IF ~Truthy(first) THEN <<"first">> ELSE <<>>)
        \o (IF ~Truthy(last) THEN <<"last">> ELSE <<>>)
        \o (IF ~Truthy(roleId) THEN <<"roleId">> ELSE <<>>)
      user == [id |-> id, first |-> first, last |-> last, roleId |-> roleId.v,
               photo |-> photo, createdAt |-> time, updatedAt |-> time]
  IN IF Truthy(roleId) /\ findRole(d.roles, roleId) = 0
     THEN [data |-> d, res |-> Message(400, "Referenced role not found")]
     ELSE IF missingFields # <<>>
     THEN [data |-> d,
           res |-> [status |-> 400,
                    body |-> [message |-> IF Len(missingFields) > 1
                                          THEN "Missing required fields"
                                          ELSE "Missing required field",
                              fields |-> missingFields]]]
     ELSE [data |-> [d EXCEPT !.users = Append(@, user)], res |-> Ok(user)]

\* api.post('/users')
postUser(d, r, time, id, photo) ==
  LET first == Get(r.body, "first")
      last == Get(r.body, "last")
      roleId == Get(r.body, "roleId")
      missingFields ==
        (IF ~Truthy(first) THEN <<"first">> ELSE <<>>)
        \o (IF ~Truthy(last) THEN <<"last">> ELSE <<>>)
        \o (IF ~Truthy(roleId) THEN <<"roleId">> ELSE <<>>)
      user == [id |-> id, first |-> first, last |-> last, roleId |-> roleId.v,
               photo |-> photo, createdAt |-> time, updatedAt |-> time]
  IN IF missingFields # <<>>
     THEN [data |-> d,
           res |-> [status |-> 400,
                    body |-> [message |-> IF Len(missingFields) > 1
                                          THEN "Missing required fields"
                                          ELSE "Missing required field",
                              fields |-> missingFields]]]
     ELSE IF findRole(d.roles, roleId) = 0
     THEN [data |-> d, res |-> Message(400, "Referenced role not found")]
     ELSE [data |-> [d EXCEPT !.users = Append(@, user)], res |-> Ok(user)]

\* A mutant of deleteUser: the first user of the array is removed, whoever it is.
deleteUser_First(d, r) ==
  LET i == getEntity(r, d.users)
  IN IF i = 0 THEN [data |-> d, res |-> Message(404, "User not found")]
     ELSE [data |-> [d EXCEPT !.users = Tail(@)], res |-> Ok(d.users[i])]

\* api.delete('/users/:id')
deleteUser(d, r) ==
  LET i == getEntity(r, d.users)
      Other(item) == item.id # d.users[i].id
  IN IF i = 0 THEN [data |-> d, res |-> Message(404, "User not found")]
     ELSE [data |-> [d EXCEPT !.users = SelectSeq(@, Other)], res |-> Ok(d.users[i])]

\* api.get('/roles')
getRoles(d, r, pageSize) ==
  LET paged == getPagedData(r, d.roles, searchFields.roles, pageSize)
  IN IF paged.thrown THEN [data |-> d, res |-> Thrown]
     ELSE [data |-> [d EXCEPT !.roles = paged.stored], res |-> Ok(paged.body)]

\* api.get('/roles/:id')
getRole(d, r) ==
  LET i == getEntity(r, d.roles)
  IN [data |-> d,
      res |-> IF i = 0 THEN Message(404, "Role not found") ELSE Ok(d.roles[i])]

\* api.patch('/roles/:id')
patchRole(d, r, time) ==
  LET i == getEntity(r, d.roles)
      role == d.roles[i]
      name == Get(r.body, "name")
      description == Get(r.body, "description")
      isDefault == Get(r.body, "isDefault")
      r1 == updateField(role, "name", name)
      r2 == updateField(r1, "description", description)
      named == [d.roles EXCEPT ![i] = r2]
      setDefault == isDefault # r2.isDefault /\ isDefault = Bool(TRUE)
      cleared == clearDefaultRole(named)
      updated == r2 # role \/ setDefault
      r3 == IF setDefault THEN [cleared[i] EXCEPT !.isDefault = Bool(TRUE)] ELSE r2
      r4 == IF updated THEN [r3 EXCEPT !.updatedAt = time] ELSE r3
  IN IF i = 0 THEN [data |-> d, res |-> Message(404, "Role not found")]
     ELSE IF otherRoleNamed(d.roles, name, role.id) # 0
     THEN [data |-> d, res |-> Message(400, "Role with given name already exists")]
     ELSE IF isDefault # r2.isDefault /\ isDefault = Bool(FALSE)
     THEN [data |-> [d EXCEPT !.roles = named],
           res |-> Message(400, "Cannot unset default role")]
     ELSE IF setDefault /\ getDefaultRole(named) = 0
     THEN [data |-> [d EXCEPT !.roles = named], res |-> Thrown]
     ELSE [data |-> [d EXCEPT !.roles = [(IF setDefault THEN cleared ELSE named)
                                          EXCEPT ![i] = r4]],
           res |-> Ok(r4)]

\* api.post('/roles')
postRole(d, r, time, id) ==
  LET name == Get(r.body, "name")
      description == IF "description" \in DOMAIN r.body THEN r.body.description
                     ELSE Str(<<>>)
      isDefault == IF "isDefault" \in DOMAIN r.body THEN r.body.isDefault
                   ELSE Bool(FALSE)
      role == [id |-> id, name |-> name, description |-> description,
               isDefault |-> isDefault, createdAt |-> time, updatedAt |-> time]
      roles == IF isDefault = Bool(TRUE) THEN clearDefaultRole(d.roles) ELSE d.roles
  IN IF ~Truthy(name)
     THEN [data |-> d,
           res |-> [status |-> 400,
                    body |-> [message |-> "Missing required field",
                              fields |-> <<"name">>]]]
     ELSE IF roleNamed(d.roles, name) # 0
     THEN [data |-> d, res |-> Message(400, "Role with given name already exists")]
     ELSE IF isDefault = Bool(TRUE) /\ getDefaultRole(d.roles) = 0
     THEN [data |-> d, res |-> Thrown]
     ELSE [data |-> [d EXCEPT !.roles = Append(roles, role)], res |-> Ok(role)]

\* A mutant of deleteRole: the default role is not refused.
deleteRole_NoDefaultGuard(d, r) ==
  LET i == getEntity(r, d.roles)
      role == d.roles[i]
      defaultRole == getDefaultRole(d.roles)
      Has(user) == user.roleId = role.id
      Other(item) == item.id # role.id
      users == [k \in 1..Len(d.users) |->
                  IF Has(d.users[k])
                  THEN [d.users[k] EXCEPT !.roleId = d.roles[defaultRole].id]
                  ELSE d.users[k]]
  IN IF i = 0 THEN [data |-> d, res |-> Message(404, "Role not found")]
     ELSE IF defaultRole = 0 /\ (\E k \in 1..Len(d.users) : Has(d.users[k]))
     THEN [data |-> d, res |-> Thrown]
     ELSE [data |-> [users |-> users, roles |-> SelectSeq(d.roles, Other)],
           res |-> Ok(role)]

\* api.delete('/roles/:id')
deleteRole(d, r) ==
  LET i == getEntity(r, d.roles)
      role == d.roles[i]
      defaultRole == getDefaultRole(d.roles)
      Has(user) == user.roleId = role.id
      Other(item) == item.id # role.id
      users == [k \in 1..Len(d.users) |->
                  IF Has(d.users[k])
                  THEN [d.users[k] EXCEPT !.roleId = d.roles[defaultRole].id]
                  ELSE d.users[k]]
  IN IF i = 0 THEN [data |-> d, res |-> Message(404, "Role not found")]
     ELSE IF Truthy(role.isDefault)
     THEN [data |-> d, res |-> Message(400, "Cannot delete default role")]
     ELSE IF defaultRole = 0 /\ (\E k \in 1..Len(d.users) : Has(d.users[k]))
     THEN [data |-> d, res |-> Thrown]
     ELSE [data |-> [users |-> users, roles |-> SelectSeq(d.roles, Other)],
           res |-> Ok(role)]

VARIABLES
  data,          \* the store: [users, roles], two arrays in stored order
  serverConfig,  \* [speed, chanceOfServerError, pageSize]
  now,           \* the clock read by new Date()
  issued,        \* how many identifiers randomUUID has issued
  pending,       \* delayed requests, in arrival order: [req, serverError, latencyInMs]
  req,           \* the request being answered (n: its arrival number), Idle between two
  res,           \* the response to it: [status, body]
  serverError,   \* the middleware's serverError for the request being answered
  routed,        \* whether the middleware passed it on to its route (next())
  served         \* how many requests have been answered

vars == <<data, serverConfig, now, issued, pending, req, res, serverError, routed, served>>

(***************************************************************************)
(* The router: the handler express picks for the request.                   *)
(***************************************************************************)
route(d, r, time, id, photo, pageSize) ==
  CASE r.method = "GET" /\ r.path = "/users" -> getUsers(d, r, pageSize)
    [] r.method = "GET" /\ r.path = "/users/:id" -> getUser(d, r)
    [] r.method = "PATCH" /\ r.path = "/users/:id" -> patchUser(d, r, time)
    [] r.method = "POST" /\ r.path = "/users" -> postUser(d, r, time, id, photo)
    [] r.method = "DELETE" /\ r.path = "/users/:id" -> deleteUser(d, r)
    [] r.method = "GET" /\ r.path = "/roles" -> getRoles(d, r, pageSize)
    [] r.method = "GET" /\ r.path = "/roles/:id" -> getRole(d, r)
    [] r.method = "PATCH" /\ r.path = "/roles/:id" -> patchRole(d, r, time)
    [] r.method = "POST" /\ r.path = "/roles" -> postRole(d, r, time, id)
    [] r.method = "DELETE" /\ r.path = "/roles/:id" -> deleteRole(d, r)

(***************************************************************************)
(* The middleware logWithNetworkEffects.  A draw of Math.random() is given  *)
(* in hundredths, and so is chanceOfServerError.                            *)
(***************************************************************************)
RandomDraws == {0, 99}
Photos == {0, 69}

\* Only POST /users draws a photo.
PhotosFor(r) == IF r.method = "POST" /\ r.path = "/users" THEN Photos ELSE {0}

latencyInMs(speed, rnd) ==
  IF speed = "slow" THEN rnd * 10 + 1000
  ELSE IF speed = "fast" THEN rnd * 5 + 500
  ELSE 0

\* A mutant of afterDelay: the `return` after the 500 is missing, so next() runs too.
afterDelay_NoReturn(error, r, photo) ==
  /\ req = Idle
  /\ served < MaxRequests
  /\ served' = served + 1
  /\ serverError' = error
  /\ LET out == route(data, r, now, randomUUID(issued + 1), photo,
                           serverConfig.pageSize)
     IN /\ r.method = "POST" => issued < MaxCreated
        /\ data' = out.data
        /\ res' = IF error THEN Message(500, "Server Error") ELSE out.res
        /\ routed' = TRUE
        /\ req' = r
        /\ issued' = IF r.method = "POST" /\ out.res.status = 200
                     THEN issued + 1 ELSE issued

\* afterDelay: the injected fault, or next() into the router.
afterDelay(error, r, photo) ==
  /\ req = Idle
  /\ served < MaxRequests
  /\ served' = served + 1
  /\ serverError' = error
  /\ IF error
     THEN /\ res' = Message(500, "Server Error")
          /\ routed' = FALSE
          /\ req' = r
          /\ UNCHANGED <<data, issued>>
     ELSE LET out == route(data, r, now, randomUUID(issued + 1), photo,
                           serverConfig.pageSize)
          IN /\ r.method = "POST" => issued < MaxCreated
             /\ data' = out.data
             /\ res' = out.res
             /\ routed' = TRUE
             /\ req' = r
             /\ issued' = IF r.method = "POST" /\ out.res.status = 200
                          THEN issued + 1 ELSE issued

\* The request r as the n-th request to reach the server: the req and res
\* objects express creates for it.
Arrival(r, n) == r @@ [n |-> n]

\* The requests that have reached the server, and the delayed POSTs among them.
Arrived == served + Len(pending)
PendingPosts == Cardinality({i \in 1..Len(pending) : pending[i].req.method = "POST"})

\* A request of the set rs arrives and setTimeout(afterDelay, latencyInMs) is armed.
Delay(rndError, rs) ==
  /\ req = Idle
  /\ Len(pending) < MaxPending
  /\ Arrived < MaxRequests
  /\ \E rndLatency \in RandomDraws, r \in rs :
       /\ latencyInMs(serverConfig.speed, rndLatency) # 0
       /\ r.method = "POST" => issued + PendingPosts < MaxCreated
       /\ pending' = Append(pending,
                      [req |-> Arrival(r, Arrived + 1),
                       serverError |-> rndError < serverConfig.chanceOfServerError,
                       latencyInMs |-> latencyInMs(serverConfig.speed, rndLatency)])
  /\ UNCHANGED <<data, serverConfig, now, issued, req, res, serverError, routed, served>>

\* A request of the set rs arrives with no latency: afterDelay() is called at once.
Immediate(rs) ==
  /\ req = Idle
  /\ \E rndLatency \in RandomDraws : latencyInMs(serverConfig.speed, rndLatency) = 0
  /\ \E rndError \in RandomDraws, r \in rs :
       \E photo \in PhotosFor(r) :
         afterDelay(rndError < serverConfig.chanceOfServerError,
                    Arrival(r, Arrived + 1), photo)
  /\ UNCHANGED <<serverConfig, now, pending>>

\* A timer armed earlier with a latency no longer than the i-th one's expires first.
Expires(i) == \A j \in 1..(i - 1) : pending[j].latencyInMs > pending[i].latencyInMs

\* The timer of the i-th delayed request fires: its afterDelay() runs.
TimerFires(i) ==
  /\ req = Idle
  /\ i \in 1..Len(pending)
  /\ Expires(i)
  /\ \E photo \in PhotosFor(pending[i].req) :
       afterDelay(pending[i].serverError, pending[i].req, photo)
  /\ pending' = SubSeq(pending, 1, i - 1) \o SubSeq(pending, i + 1, Len(pending))
  /\ UNCHANGED <<serverConfig, now>>

\* The response has left the server; the next callback can run.
Sent ==
  /\ req # Idle
  /\ req' = Idle
  /\ res' = Idle
  /\ serverError' = FALSE
  /\ routed' = FALSE
  /\ UNCHANGED <<data, serverConfig, now, issued, pending, served>>

\* A mutant of reset: only the roles are replaced by the seed's.
reset_RolesOnly ==
  /\ req = Idle
  /\ data' = [data EXCEPT !.roles = resetData.roles]
  /\ UNCHANGED <<serverConfig, now, issued, pending, req, res, serverError, routed, served>>

\* A mutant of reset: the timers of the delayed requests are cleared too.
reset_ClearsTimers ==
  /\ req = Idle
  /\ data' = resetData
  /\ pending' = <<>>
  /\ UNCHANGED <<serverConfig, now, issued, req, res, serverError, routed, served>>

\* The reset handle of startServer: data = resetData().  It runs between two
\* callbacks, as every piece of JavaScript does.
reset ==
  /\ req = Idle
  /\ data' = resetData
  /\ UNCHANGED <<serverConfig, now, issued, pending, req, res, serverError, routed, served>>

\* Time passes.
Tick ==
  /\ req = Idle
  /\ now < MaxTime
  /\ now' = now + 1
  /\ UNCHANGED <<data, serverConfig, issued, pending, req, res, serverError, routed, served>>

(***************************************************************************)
(* Requests.                                                                *)
(***************************************************************************)
Request(method, path, id, query, body) ==
  [method |-> method, path |-> path, params |-> [id |-> id], query |-> query, body |-> body]

Ids(arr) == {arr[i].id : i \in 1..Len(arr)} \cup {NotAnId}

\* The objects with any subset of the given properties, each with a value of its set.
Objects(values) ==
  UNION {[fields -> UNION {values[f] : f \in fields}] : fields \in SUBSET DOMAIN values}

\* Every JSON object over `values` whose properties take values of their own sets.
Bodies(values) == {b \in Objects(values) : \A f \in DOMAIN b : b[f] \in values[f]}

NoBody == <<>>
NoQuery == <<>>
NoId == <<>>

RoleRefs(d) == {Str(id) : id \in Ids(d.roles)}

\* The requests of the specification: every route, with each identifier of
\* the collection and one that matches nothing; role bodies with a new or a
\* taken name and isDefault a boolean or the number 1.
UserBodies(d) ==
  {[first |-> Str(Bo), last |-> Str(Ti), roleId |-> ref] : ref \in RoleRefs(d)}
  \cup {[roleId |-> ref] : ref \in RoleRefs(d)}
  \cup {NoBody}

RoleBodies ==
  Bodies([name |-> {Str(en), Str(Su)}, isDefault |-> {Bool(TRUE), Bool(FALSE)}])
  \cup {[name |-> Str(en), isDefault |-> Num(1)]}

Requests(d) ==
  {Request("GET", "/users", NoId, NoQuery, NoBody),
   Request("GET", "/roles", NoId, NoQuery, NoBody)}
  \cup {Request(m, "/users/:id", id, NoQuery, NoBody) :
          m \in {"GET", "DELETE"}, id \in Ids(d.users)}
  \cup {Request(m, "/roles/:id", id, NoQuery, NoBody) :
          m \in {"GET", "DELETE"}, id \in Ids(d.roles)}
  \cup {Request("PATCH", "/users/:id", id, NoQuery, b) :
          id \in Ids(d.users), b \in UserBodies(d)}
  \cup {Request("POST", "/users", NoId, NoQuery, b) : b \in UserBodies(d)}
  \cup {Request("PATCH", "/roles/:id", id, NoQuery, b) :
          id \in Ids(d.roles), b \in RoleBodies}
  \cup {Request("POST", "/roles", NoId, NoQuery, b) : b \in RoleBodies}

(***************************************************************************)
(* The server after startServer(config), before any request.                *)
(***************************************************************************)
Speeds == {"slow", "fast", "instant"}
Chances == {0, 5}

Start(speeds, chances) ==
  /\ data = resetData
  /\ serverConfig \in [speed : speeds, chanceOfServerError : chances, pageSize : {PageSize}]
  /\ now = 1
  /\ issued = 0
  /\ pending = <<>>
  /\ req = Idle
  /\ res = Idle
  /\ serverError = FALSE
  /\ routed = FALSE
  /\ served = 0

(***************************************************************************)
(* Spec: the server as the test suite starts it (speed 'instant', no        *)
(* injected fault), under every request of Requests.                        *)
(***************************************************************************)
Init == Start({"instant"}, {0})

Next ==
  \/ Immediate(Requests(data))
  \/ Sent
  \/ reset
  \/ Tick

Spec == Init /\ [][Next]_vars

(***************************************************************************)
(* SpecNet: the server under every speed profile and chance of a fault,     *)
(* with one request of every route.  A timer fires when its latency is up. *)
(***************************************************************************)
NetRequests ==
  {Request("GET", "/users", NoId, NoQuery, NoBody),
   Request("GET", "/users/:id", U1, NoQuery, NoBody),
   Request("PATCH", "/users/:id", U2, NoQuery, [roleId |-> Str(R1)]),
   Request("POST", "/users", NoId, NoQuery,
           [first |-> Str(Bo), last |-> Str(Ti), roleId |-> Str(R1)]),
   Request("DELETE", "/users/:id", U1, NoQuery, NoBody),
   Request("GET", "/roles", NoId, NoQuery, NoBody),
   Request("GET", "/roles/:id", R1, NoQuery, NoBody),
   Request("PATCH", "/roles/:id", R1, NoQuery, [name |-> Str(en), isDefault |-> Bool(TRUE)]),
   Request("POST", "/roles", NoId, NoQuery, [name |-> Str(en)]),
   Request("DELETE", "/roles/:id", R1, NoQuery, NoBody)}

InitNet == Start(Speeds, Chances)

NextNet ==
  \/ \E rndError \in RandomDraws : Delay(rndError, NetRequests)
  \/ Immediate(NetRequests)
  \/ \E i \in 1..Len(pending) : TimerFires(i)
  \/ Sent
  \/ reset
  \/ Tick

SpecNet == InitNet /\ [][NextNet]_vars

(***************************************************************************)
(* SpecLive: the server under every speed profile and chance of a fault,    *)
(* with requests on the users.  The event loop runs every callback that is  *)
(* due: an armed timer fires once its latency is up, and the response that  *)
(* a callback produced leaves the server.                                   *)
(***************************************************************************)
LiveRequests ==
  {Request("GET", "/users/:id", U1, NoQuery, NoBody),
   Request("GET", "/users/:id", NotAnId, NoQuery, NoBody),
   Request("POST", "/users", NoId, NoQuery,
           [first |-> Str(Bo), last |-> Str(Ti), roleId |-> Str(R1)]),
   Request("DELETE", "/users/:id", U1, NoQuery, NoBody)}

InitLive == Start(Speeds, Chances)

NextLive ==
  \/ \E rndError \in RandomDraws : Delay(rndError, LiveRequests)
  \/ Immediate(LiveRequests)
  \/ \E i \in 1..Len(pending) : TimerFires(i)
  \/ Sent
  \/ reset
  \/ Tick

SpecLive ==
  /\ InitLive
  /\ [][NextLive]_vars
  /\ WF_vars(\E i \in 1..MaxPending : TimerFires(i))
  /\ WF_vars(Sent)

(***************************************************************************)
(* SpecQuery: the server as the test suite starts it, under the listing     *)
(* requests with every search term and page parameter of the model, and     *)
(* the requests that add and remove users and roles.                        *)
(***************************************************************************)
Searches == {Str(<<>>), Str(<<"M">>), Str(<<"s">>), Str(<<"u">>), Str(<<"z">>)}
Pages == {Str(<<>>), Str(<<"0">>), Str(<<"1">>), Str(<<"2">>), Str(<<"3">>),
          Str(<<"-", "1">>), Str(<<"x">>)}
Queries == Bodies([search |-> Searches, page |-> Pages])

QueryRequests(d) ==
  {Request("GET", path, NoId, q, NoBody) : path \in {"/users", "/roles"}, q \in Queries}
  \cup {Request("DELETE", "/users/:id", id, NoQuery, NoBody) : id \in Ids(d.users)}
  \cup {Request("DELETE", "/roles/:id", id, NoQuery, NoBody) : id \in Ids(d.roles)}
  \cup {Request("POST", "/users", NoId, NoQuery,
                [first |-> Str(Ma), last |-> Str(Bo), roleId |-> Str(R2)]),
        Request("POST", "/roles", NoId, NoQuery, [name |-> Str(en)])}

InitQuery == Start({"instant"}, {0})

NextQuery ==
  \/ Immediate(QueryRequests(data))
  \/ Sent
  \/ reset
  \/ Tick

SpecQuery == InitQuery /\ [][NextQuery]_vars

(***************************************************************************)
(* SpecSearch: the server as the test suite starts it, under POST /roles    *)
(* with a description that is absent, null or a text, and the listings with *)
(* and without a search term.                                               *)
(***************************************************************************)
DescribedBodies ==
  {[name |-> Str(en)],
   [name |-> Str(en), description |-> Null],
   [name |-> Str(en), description |-> Str(<<"b">>)]}

SearchQueries == Bodies([search |-> {Str(<<"e">>), Str(<<"z">>)}, page |-> {Str(<<"2">>)}])

SearchRequests(d) ==
  {Request("GET", path, NoId, q, NoBody) : path \in {"/users", "/roles"}, q \in SearchQueries}
  \cup {Request("POST", "/roles", NoId, NoQuery, b) : b \in DescribedBodies}
  \cup {Request("PATCH", "/roles/:id", id, NoQuery, [description |-> v]) :
          id \in Ids(d.roles), v \in {Null, Str(<<"z">>)}}
  \cup {Request("DELETE", "/roles/:id", id, NoQuery, NoBody) : id \in Ids(d.roles)}

InitSearch == Start({"instant"}, {0})

NextSearch ==
  \/ Immediate(SearchRequests(data))
  \/ Sent
  \/ reset
  \/ Tick

SpecSearch == InitSearch /\ [][NextSearch]_vars

(***************************************************************************)
(* SpecIdentity: the server as the test suite starts it, under requests     *)
(* that create and delete users and roles, and PATCH requests whose bodies  *)
(* carry an id and a createdAt next to the fields the handlers read.        *)
(***************************************************************************)
IdentityUserBodies ==
  Bodies([id |-> {Str(U2)}, createdAt |-> {Num(2)}, first |-> {Str(Bo)}])

IdentityRoleBodies ==
  Bodies([id |-> {Str(R2)}, createdAt |-> {Num(2)}, name |-> {Str(en)}])

IdentityRequests(d) ==
  {Request("POST", "/users", NoId, NoQuery,
           [first |-> Str(Bo), last |-> Str(Ti), roleId |-> Str(R2)]),
   Request("POST", "/roles", NoId, NoQuery, [name |-> Str(en)])}
  \cup {Request("PATCH", "/users/:id", id, NoQuery, b) :
          id \in Ids(d.users), b \in IdentityUserBodies}
  \cup {Request("PATCH", "/roles/:id", id, NoQuery, b) :
          id \in Ids(d.roles), b \in IdentityRoleBodies}
  \cup {Request("DELETE", "/users/:id", id, NoQuery, NoBody) : id \in Ids(d.users)}
  \cup {Request("DELETE", "/roles/:id", id, NoQuery, NoBody) : id \in Ids(d.roles)}

InitIdentity == Start({"instant"}, {0})

NextIdentity ==
  \/ Immediate(IdentityRequests(data))
  \/ Sent
  \/ reset
  \/ Tick

SpecIdentity == InitIdentity /\ [][NextIdentity]_vars

(***************************************************************************)
(* SpecWrite: the server as the test suite starts it, under the requests    *)
(* that create and update: POST /users and PATCH with every field absent,   *)
(* null, empty, as it is, or new.                                           *)
(***************************************************************************)
PostUserBodies ==
  Bodies([first |-> {Str(<<>>), Str(Bo)},
          last |-> {Str(Ti)},
          roleId |-> {Str(<<>>), Str(R1), Str(NotAnId)}])

PatchUserBodies ==
  Bodies([first |-> {Null, Str(<<>>), Str(Bo)}, last |-> {Str(Bo)}])

PatchRoleBodies ==
  Bodies([name |-> {Null, Str(<<>>), Str(en)},
          description |-> {Str(<<>>), Str(<<"b">>)}])

WriteRequests(d) ==
  {Request("POST", "/users", NoId, NoQuery, b) : b \in PostUserBodies}
  \cup {Request("PATCH", "/users/:id", id, NoQuery, b) :
          id \in Ids(d.users), b \in PatchUserBodies}
  \cup {Request("PATCH", "/roles/:id", id, NoQuery, b) :
          id \in Ids(d.roles), b \in PatchRoleBodies}

InitWrite == Start({"instant"}, {0})

NextWrite ==
  \/ Immediate(WriteRequests(data))
  \/ Sent
  \/ reset
  \/ Tick

SpecWrite == InitWrite /\ [][NextWrite]_vars

(***************************************************************************)
(* Vocabulary of the properties.                                            *)
(***************************************************************************)
\* A step in which a request is answered.
Answered == req = Idle /\ req' # Idle

\* A step in which the route handler of the given route ran.
Handled(method, path) ==
  Answered /\ routed' /\ req'.method = method /\ req'.path = path

\* The state just after the route handler of the given route ran.
Ran(method, path) == req # Idle /\ routed /\ req.method = method /\ req.path = path

\* The positions of the roles whose isDefault is true.
TrueDefaults(roles) == {i \in 1..Len(roles) : roles[i].isDefault = Bool(TRUE)}

\* The position of the item with the given id, 0 if there is none.
IndexOf(arr, id) == find({i \in 1..Len(arr) : arr[i].id = id})

\* The array without the item with the given id.
Without(arr, id) == LET Other(item) == item.id # id IN SelectSeq(arr, Other)

(***************************************************************************)
(* C1.  In every reachable state exactly one role of the roles collection   *)
(* has isDefault equal to true.                                             *)
(***************************************************************************)
C1_ExactlyOneDefault == Cardinality(TrueDefaults(data.roles)) = 1

(***************************************************************************)
(* C2.  In every reachable state every user's roleId is the id of a role    *)
(* of the roles collection.                                                 *)
(***************************************************************************)
C2_UsersReferToRoles ==
  \A k \in 1..Len(data.users) : IndexOf(data.roles, data.users[k].roleId) # 0

\* A role with a user in it has just been deleted and the user is still stored.
C2_Witness ==
  /\ Ran("DELETE", "/roles/:id")
  /\ res.status = 200
  /\ req.params.id = R1
  /\ \E k \in 1..Len(data.users) : data.users[k].id = U1 /\ data.users[k].roleId # R1

(***************************************************************************)
(* C3.  A successful DELETE /roles/:id of a non-default role R sets the     *)
(* roleId of every user that referenced R to the id of the role that has    *)
(* isDefault = true, leaves every other user, the default role and the      *)
(* number of users unchanged, and removes exactly R from the roles.         *)
(***************************************************************************)
C3_DeleteReassignsToDefault ==
  [][(Handled("DELETE", "/roles/:id") /\ res'.status = 200) =>
       LET R == req'.params.id
       IN /\ Len(data'.users) = Len(data.users)
          /\ \A k \in 1..Len(data.users) :
               IF data.users[k].roleId = R
               THEN \E i \in TrueDefaults(data.roles) :
                      data'.users[k] = [data.users[k] EXCEPT !.roleId = data.roles[i].id]
               ELSE data'.users[k] = data.users[k]
          /\ data'.roles = Without(data.roles, R)
          /\ Len(data'.roles) = Len(data.roles) - 1]_vars

(***************************************************************************)
(* C4.  DELETE /roles/:id on the role that is the default responds 400      *)
(* 'Cannot delete default role', on an id that matches no role 404 'Role    *)
(* not found'; either way users and roles are left unchanged.               *)
(***************************************************************************)
C4_DeleteDefaultRefused ==
  [][Handled("DELETE", "/roles/:id") =>
       LET i == IndexOf(data.roles, req'.params.id)
       IN /\ (i # 0 /\ data.roles[i].isDefault = Bool(TRUE)) =>
               (res' = Message(400, "Cannot delete default role") /\ data' = data)
          /\ i = 0 => (res' = Message(404, "Role not found") /\ data' = data)]_vars

\* The deletion of the default role has just been refused.
C4_Witness ==
  /\ Ran("DELETE", "/roles/:id")
  /\ res = Message(400, "Cannot delete default role")
  /\ data.roles[IndexOf(data.roles, req.params.id)].isDefault = Bool(TRUE)

(***************************************************************************)
(* C5.  A PATCH /roles/:id on the default role whose body carries           *)
(* isDefault: false responds 400 'Cannot unset default role' and changes    *)
(* nothing in the store, whatever other fields the body carries.  (A body   *)
(* whose name is taken by another role is left to C6.)                      *)
(***************************************************************************)
NameTaken(roles, i, name) ==
  \E j \in 1..Len(roles) : j # i /\ roles[j].name = name

C5_UnsetDefaultChangesNothing ==
  [][Handled("PATCH", "/roles/:id") =>
       LET i == IndexOf(data.roles, req'.params.id)
       IN (/\ i # 0
           /\ data.roles[i].isDefault = Bool(TRUE)
           /\ Get(req'.body, "isDefault") = Bool(FALSE)
           /\ ~NameTaken(data.roles, i, Get(req'.body, "name")))
          => (res' = Message(400, "Cannot unset default role") /\ data' = data)]_vars

(***************************************************************************)
(* C6.  A PATCH /roles/:id whose body name is the name of a different role  *)
(* responds 400 'Role with given name already exists' and leaves the store  *)
(* unchanged; a PATCH whose name is the target's own current name is no     *)
(* conflict and responds 200.                                               *)
(***************************************************************************)
C6_TakenNameRefused(i) ==
  NameTaken(data.roles, i, Get(req'.body, "name")) =>
    (res' = Message(400, "Role with given name already exists") /\ data' = data)

\* The claim as stated: the own name always gets 200.
C6_OwnNameIs200 ==
  [][Handled("PATCH", "/roles/:id") =>
       LET i == IndexOf(data.roles, req'.params.id)
       IN i # 0 =>
            /\ C6_TakenNameRefused(i)
            /\ (Get(req'.body, "name") = data.roles[i].name
                /\ ~NameTaken(data.roles, i, data.roles[i].name))
               => res'.status = 200]_vars

\* As amended: the own name is no name conflict; the response is 200 unless the
\* body also carries isDefault: false and the target's isDefault is not false,
\* which is answered 400 'Cannot unset default role'.
C6_OwnNameIsNoConflict ==
  [][Handled("PATCH", "/roles/:id") =>
       LET i == IndexOf(data.roles, req'.params.id)
       IN i # 0 =>
            /\ C6_TakenNameRefused(i)
            /\ (Get(req'.body, "name") = data.roles[i].name
                /\ ~NameTaken(data.roles, i, data.roles[i].name))
               => IF /\ Get(req'.body, "isDefault") = Bool(FALSE)
                     /\ data.roles[i].isDefault # Bool(FALSE)
                  THEN res' = Message(400, "Cannot unset default role")
                  ELSE res'.status = 200]_vars

\* A PATCH that names the role as it is named already has just been answered 200.
C6_Witness ==
  /\ Ran("PATCH", "/roles/:id")
  /\ res.status = 200
  /\ Get(req.body, "name") = Str(Su)
  /\ req.params.id = R2
  /\ data.roles[IndexOf(data.roles, R2)].updatedAt = 0

(***************************************************************************)
(* C7.  In every reachable state no two distinct roles have the same name.  *)
(***************************************************************************)
C7_RoleNamesUnique ==
  \A i, j \in 1..Len(data.roles) : i # j => data.roles[i].name # data.roles[j].name

\* A POST /roles with a taken name has just been refused.
C7_Witness ==
  /\ Ran("POST", "/roles")
  /\ res = Message(400, "Role with given name already exists")
  /\ \E i \in 1..Len(data.roles) : data.roles[i].name = Get(req.body, "name")

(***************************************************************************)
(* C8.  After a successful POST /roles with isDefault: true, or a           *)
(* successful PATCH /roles/:id with isDefault: true on a non-default role,  *)
(* the created / targeted role is the default and the role that was the     *)
(* default before has isDefault = false; in every state the role found by   *)
(* the default-role lookup is the role whose isDefault is true.             *)
(***************************************************************************)
C8_LookupFindsTrueDefault ==
  LET i == getDefaultRole(data.roles) IN i # 0 /\ data.roles[i].isDefault = Bool(TRUE)

C8_Displaced(target) ==
  /\ IndexOf(data'.roles, target) # 0
  /\ data'.roles[IndexOf(data'.roles, target)].isDefault = Bool(TRUE)
  /\ \A i \in TrueDefaults(data.roles) :
       data.roles[i].id # target =>
         data'.roles[IndexOf(data'.roles, data.roles[i].id)].isDefault = Bool(FALSE)

C8_NewDefaultDisplacesOld ==
  [][/\ C8_LookupFindsTrueDefault'
     /\ (/\ Handled("POST", "/roles")
         /\ res'.status = 200
         /\ Get(req'.body, "isDefault") = Bool(TRUE)) => C8_Displaced(res'.body.id)
     /\ (/\ Handled("PATCH", "/roles/:id")
         /\ res'.status = 200
         /\ Get(req'.body, "isDefault") = Bool(TRUE)) => C8_Displaced(req'.params.id)]_vars

(***************************************************************************)
(* C9.  A request selected for fault injection is answered, after its       *)
(* latency delay, with 500 {message: 'Server Error'}; its route handler is  *)
(* never invoked and users and roles are the same before and after it,      *)
(* whatever its method, path and body.                                      *)
(***************************************************************************)
\* The delayed request whose timer fired in this step.
Fired(i) ==
  /\ i \in 1..Len(pending)
  /\ pending' = SubSeq(pending, 1, i - 1) \o SubSeq(pending, i + 1, Len(pending))

C9_FaultTouchesNothing ==
  [][/\ (Answered /\ serverError') =>
          (res' = Message(500, "Server Error") /\ ~routed' /\ data' = data)
     /\ (Answered /\ pending' # pending) =>
          \E i \in 1..Len(pending) : Fired(i) /\ serverError' = pending[i].serverError
     /\ Len(pending') > Len(pending) => (req' = req /\ res' = res /\ data' = data)]_vars

\* A delayed POST selected for the fault has just been answered.
C9_Witness ==
  /\ req # Idle
  /\ serverError
  /\ req.method = "POST"
  /\ serverConfig.speed = "slow"
  /\ res = Message(500, "Server Error")

(***************************************************************************)
(* C10.  For GET /users and GET /roles, with p the requested page number    *)
(* (1 when the page parameter is missing or non-numeric) and n the number   *)
(* of items matching the search: pages = ceil(n / pageSize), 0 when n = 0;  *)
(* next = p + 1 if p < pages else null; prev = p - 1 if p > 1 else null.    *)
(***************************************************************************)
Listed == Ran("GET", "/users") \/ Ran("GET", "/roles")

\* The collection a listing is about and the fields its search looks at.
Listing == IF req.path = "/users" THEN data.users ELSE data.roles
ListingFields == IF req.path = "/users" THEN {"first", "last"} ELSE {"name", "description"}

\* The items that match the search of the request: all of them without a term.
Matching ==
  LET search == Get(req.query, "search")
  IN {i \in 1..Len(Listing) :
        Truthy(search) =>
          \E f \in ListingFields :
            includes(toLowerCase(Listing[i][f].v), toLowerCase(search.v))}

\* The page parameter as a number, when it is one.
PageParameter == ToNumber(Get(req.query, "page").v)
PageIsNumber == Truthy(Get(req.query, "page")) /\ PageParameter # NaN

PagedAs(p) ==
  LET n == Cardinality(Matching)
      pages == IF n = 0 THEN 0 ELSE ((n - 1) \div serverConfig.pageSize) + 1
  IN /\ res.status = 200
     /\ res.body.pages = pages
     /\ res.body.next = (IF p < pages THEN Num(p + 1) ELSE Null)
     /\ res.body.prev = (IF p > 1 THEN Num(p - 1) ELSE Null)

\* The claim as stated: every numeric page parameter is the page number.
C10_PageAsRequested ==
  Listed => PagedAs(IF PageIsNumber THEN PageParameter.v ELSE 1)

\* As amended: the page number is 1 also when the page parameter is 0.
C10_PageZeroIsOne ==
  Listed => PagedAs(IF PageIsNumber /\ PageParameter.v # 0 THEN PageParameter.v ELSE 1)

\* The second of two pages has just been listed.
C10_Witness ==
  /\ Listed
  /\ Get(req.query, "page") = Str(<<"2">>)
  /\ res.body.pages = 2
  /\ res.body.prev = Num(1)
  /\ res.body.next = Null

(***************************************************************************)
(* C11.  For every page number p with 1 <= p <= pages the returned data has *)
(* at most pageSize items, and exactly pageSize unless p = pages; the data  *)
(* of pages 1..pages, concatenated, hold every matching item exactly once.  *)
(***************************************************************************)
\* The page the request asks for: 1 when the parameter is missing, empty, no
\* number or 0.
RequestedPage == IF PageIsNumber /\ PageParameter.v # 0 THEN PageParameter.v ELSE 1

\* The same listing request asking for page q (q a single digit).
AskingFor(q) ==
  [req EXCEPT !.query = [x \in DOMAIN req.query \cup {"page"} |->
                           IF x = "page" THEN Str(<<ToString(q)>>) ELSE req.query[x]]]

\* The data of page q of the listing, over the store as it is.
PageData(q) ==
  getPagedData(AskingFor(q), Listing,
               IF req.path = "/users" THEN searchFields.users ELSE searchFields.roles,
               serverConfig.pageSize).body.data

\* The data of pages 1..q, concatenated.
RECURSIVE UpToPage(_)
UpToPage(q) == IF q = 0 THEN <<>> ELSE UpToPage(q - 1) \o PageData(q)

AllPages == UpToPage(res.body.pages)

C11_PagesPartition ==
  Listed =>
    LET p == RequestedPage
        items == res.body.data
    IN /\ (1 <= p /\ p <= res.body.pages) =>
            /\ items = PageData(p)
            /\ Len(items) <= serverConfig.pageSize
            /\ p # res.body.pages => Len(items) = serverConfig.pageSize
       /\ Len(AllPages) = Cardinality(Matching)
       /\ \A i \in Matching : \E k \in 1..Len(AllPages) : AllPages[k] = Listing[i]

\* The last of two pages has just been listed, and it is not full.
C11_Witness ==
  /\ Listed
  /\ RequestedPage = 2
  /\ res.body.pages = 2
  /\ Len(res.body.data) = 1
  /\ Len(PageData(1)) = serverConfig.pageSize

(***************************************************************************)
(* C12.  Requesting an integer page number that is out of range, greater    *)
(* than pages or negative, returns an empty data slice, with pages, next    *)
(* and prev computed from the total filtered set by the usual formulas.     *)
(***************************************************************************)
C12_OutOfRangeIsEmpty ==
  (/\ Listed
   /\ PageIsNumber
   /\ PageParameter.v > res.body.pages \/ PageParameter.v < 0)
  => (res.body.data = <<>> /\ PagedAs(PageParameter.v))

(***************************************************************************)
(* C13.  With a non-empty search term, GET /users (fields first, last) and  *)
(* GET /roles (fields name, description) match exactly the items for which  *)
(* the lowercased term is a substring of the lowercased value of a declared *)
(* field, and no other field is consulted; with no search term, or an empty *)
(* one, every item of the collection matches.                               *)
(***************************************************************************)
\* The identifiers of the items of an array.
IdsIn(arr) == {arr[k].id : k \in 1..Len(arr)}

C13_SearchMatchesDeclaredFields ==
  Listed =>
    /\ IdsIn(AllPages) = {Listing[i].id : i \in Matching}
    /\ ~Truthy(Get(req.query, "search")) => IdsIn(AllPages) = IdsIn(Listing)

\* A listing of the users for the term M has just found the user whose first
\* name is Ma, and not the user named Bo Ti.
C13_Witness ==
  /\ Ran("GET", "/users")
  /\ Get(req.query, "search") = Str(<<"M">>)
  /\ \E k \in 1..Len(AllPages) : AllPages[k].first = Str(Ma)
  /\ U2 \in IdsIn(data.users)
  /\ U2 \notin IdsIn(AllPages)

(***************************************************************************)
(* C14.  The items of a listing response, taken across pages 1..pages in    *)
(* order, are sorted by createdAt in non-increasing order, newest first,    *)
(* with or without a search term; a user or role created by POST comes      *)
(* before all seed items created earlier.                                   *)
(***************************************************************************)
NewestFirst(arr) ==
  \A j, k \in 1..Len(arr) : j < k => arr[j].createdAt >= arr[k].createdAt

C14_NewestFirst ==
  Listed =>
    /\ NewestFirst(AllPages)
    /\ NewestFirst(res.body.data)
    /\ (1 <= RequestedPage /\ RequestedPage <= res.body.pages) =>
         res.body.data = PageData(RequestedPage)

\* A listing has just put an item created by POST, which the store held last,
\* before the seed items.
C14_Witness ==
  /\ Listed
  /\ Len(AllPages) = 3
  /\ res.body.data = SubSeq(AllPages, 1, 2)
  /\ AllPages[1].createdAt > AllPages[2].createdAt
  /\ AllPages[1].id \notin IdsIn(rawData.users) \cup IdsIn(rawData.roles)
  /\ AllPages[3].id \in IdsIn(rawData.users) \cup IdsIn(rawData.roles)

(***************************************************************************)
(* C15.  GET /users, GET /roles, GET /users/:id and GET /roles/:id have no  *)
(* side effects: the users and roles collections, their members, every      *)
(* field of every member and the stored order of the members, are the same  *)
(* after the request as before it.                                          *)
(***************************************************************************)
C15_GetChangesNothing ==
  [][(Answered /\ routed' /\ req'.method = "GET") => data' = data]_vars

(***************************************************************************)
(* C16.  POST /users with any of first, last, roleId absent or empty        *)
(* responds 400 with a message that names every missing field in the order  *)
(* first, last, roleId, 'Missing required field: X' for one and 'Missing    *)
(* required fields: X, Y' for several; this check comes before the role     *)
(* lookup; an unresolvable roleId with all fields present responds 400      *)
(* 'Referenced role not found'; in every 400 case the store is unchanged.   *)
(***************************************************************************)
\* The fields of the body that are absent or empty, in the order of the message.
Present(f) == Truthy(Get(req'.body, f))
Missing == SelectSeq(<<"first", "last", "roleId">>, LAMBDA f : ~Present(f))

\* Whether the body's roleId is the id of a stored role.
Resolves ==
  LET roleId == Get(req'.body, "roleId")
  IN roleId.t = "str" /\ \E i \in 1..Len(data.roles) : data.roles[i].id = roleId.v

C16_MissingFieldsNamed ==
  [][Handled("POST", "/users") =>
       /\ Missing # <<>> =>
            res' = [status |-> 400,
                    body |-> [message |-> IF Len(Missing) = 1
                                          THEN "Missing required field"
                                          ELSE "Missing required fields",
                              fields |-> Missing]]
       /\ (Missing = <<>> /\ ~Resolves) =>
            res' = Message(400, "Referenced role not found")
       /\ (Missing = <<>> /\ Resolves) => res'.status = 200
       /\ res'.status = 400 => data' = data]_vars

\* A POST /users without first and with a roleId that resolves to no role has
\* just been refused for the missing field.
C16_Witness ==
  /\ Ran("POST", "/users")
  /\ res.status = 400
  /\ Get(req.body, "roleId") = Str(NotAnId)
  /\ Get(req.body, "last") = Str(Ti)
  /\ res.body.message = "Missing required field"
  /\ res.body.fields = <<"first">>

(***************************************************************************)
(* C17.  Round trip: after a successful POST /users with first, last and an *)
(* existing roleId, a GET /users/:id with the returned id, with no request  *)
(* in between, responds 200 with a user whose first, last and roleId are    *)
(* what was sent and whose id, createdAt, updatedAt and photo are those of  *)
(* the POST response, with createdAt = updatedAt; the user count grows by   *)
(* exactly 1 and no existing user or role is changed.                       *)
(***************************************************************************)
\* The response to a GET /users/:id for the given id over the store d.
GetById(d, id) == getUser(d, Request("GET", "/users/:id", id, NoQuery, NoBody)).res

C17_PostThenGet ==
  [][(Handled("POST", "/users") /\ res'.status = 200) =>
       LET sent == req'.body
           made == res'.body
           got == GetById(data', made.id)
       IN /\ got.status = 200
          /\ got.body.first = sent.first
          /\ got.body.last = sent.last
          /\ Str(got.body.roleId) = sent.roleId
          /\ got.body.id = made.id
          /\ got.body.createdAt = made.createdAt
          /\ got.body.updatedAt = made.updatedAt
          /\ got.body.photo = made.photo
          /\ got.body.createdAt = got.body.updatedAt
          /\ Len(data'.users) = Len(data.users) + 1
          /\ SubSeq(data'.users, 1, Len(data.users)) = data.users
          /\ data'.roles = data.roles]_vars

\* A user has just been created at a time later than the seed's, and the
\* store answers a GET for the new id with it.
C17_Witness ==
  /\ Ran("POST", "/users")
  /\ res.status = 200
  /\ res.body.id \notin IdsIn(rawData.users)
  /\ res.body.createdAt = 2
  /\ res.body.photo = 69
  /\ GetById(data, res.body.id) = Ok(res.body)
  /\ Len(data.users) = 3

(***************************************************************************)
(* C18.  PATCH /users/:id and PATCH /roles/:id update partially, 'falsy     *)
(* means unchanged': a field among first, last (users) or name, description *)
(* (roles) changes only when the body supplies a non-falsy value different  *)
(* from the current one; an absent, null or empty-string value leaves the   *)
(* field as it was, so no PATCH makes first, last or name empty.            *)
(***************************************************************************)
\* What a PATCH step does to field f of the item at position i of the array.
FalsyMeansUnchanged(before, after, i, f) ==
  LET value == Get(req'.body, f)
      old == before[i][f]
      new == after[i][f]
  IN /\ new # old => (Truthy(value) /\ value # old /\ new = value)
     /\ ~Truthy(value) => new = old
     /\ Truthy(old) => Truthy(new)

C18_FalsyMeansUnchanged ==
  [][/\ Handled("PATCH", "/users/:id") =>
          LET i == IndexOf(data.users, req'.params.id)
          IN i # 0 =>
               /\ Len(data'.users) = Len(data.users)
               /\ \A f \in {"first", "last"} :
                    FalsyMeansUnchanged(data.users, data'.users, i, f)
     /\ Handled("PATCH", "/roles/:id") =>
          LET i == IndexOf(data.roles, req'.params.id)
          IN i # 0 =>
               /\ Len(data'.roles) = Len(data.roles)
               /\ \A f \in {"name", "description"} :
                    FalsyMeansUnchanged(data.roles, data'.roles, i, f)]_vars

\* A PATCH with an empty first and a new last has just been answered: the
\* user keeps the first name and has the new last name.
C18_Witness ==
  /\ Ran("PATCH", "/users/:id")
  /\ res.status = 200
  /\ req.params.id = U1
  /\ Get(req.body, "first") = Str(<<>>)
  /\ Get(req.body, "last") = Str(Bo)
  /\ res.body.first = Str(Ma)
  /\ res.body.last = Str(Bo)

(***************************************************************************)
(* C19.  A PATCH /users/:id refreshes the user's updatedAt only if at least *)
(* one of first, last, roleId changed value: a PATCH whose supplied first,  *)
(* last and roleId all equal the user's current values, or are absent,      *)
(* leaves updatedAt and every other field unchanged.                        *)
(***************************************************************************)
C19_UpdatedAtOnlyOnChange ==
  [][Handled("PATCH", "/users/:id") =>
       LET i == IndexOf(data.users, req'.params.id)
           old == data.users[i]
           new == data'.users[i]
           Same(f, current) == Get(req'.body, f) \in {Undefined, current}
       IN i # 0 =>
            /\ new.updatedAt # old.updatedAt =>
                 (new.first # old.first \/ new.last # old.last \/ new.roleId # old.roleId)
            /\ (/\ Same("first", old.first)
                /\ Same("last", old.last)
                /\ Same("roleId", Str(old.roleId))) => data' = data]_vars

(***************************************************************************)
(* C20.  A PATCH /roles/:id refreshes the role's updatedAt if and only if   *)
(* the request changed the role's name, description or isDefault; a PATCH   *)
(* that supplies only current values, isDefault equal to the current flag   *)
(* included, leaves the whole store unchanged.  (A refresh shows when the   *)
(* clock has moved on since the last one.)                                  *)
(***************************************************************************)
C20_UpdatedAtIffChanged ==
  [][Handled("PATCH", "/roles/:id") =>
       LET i == IndexOf(data.roles, req'.params.id)
           old == data.roles[i]
           new == data'.roles[i]
           changed == \/ new.name # old.name
                      \/ new.description # old.description
                      \/ new.isDefault # old.isDefault
           Same(f) == Get(req'.body, f) \in {Undefined, old[f]}
       IN i # 0 =>
            /\ new.updatedAt # old.updatedAt => changed
            /\ (changed /\ old.updatedAt # now) => new.updatedAt # old.updatedAt
            /\ (Same("name") /\ Same("description") /\ Same("isDefault")) => data' = data]_vars

(***************************************************************************)
(* C21.  A successful DELETE /users/:id removes exactly that user and       *)
(* cascades to nothing: every other user and every role is unchanged; a GET *)
(* /users/:id for the same id that follows responds 404 'User not found';   *)
(* a DELETE for an id matching no user responds 404 and changes nothing.    *)
(***************************************************************************)
C21_DeleteUserRemovesOne ==
  [][Handled("DELETE", "/users/:id") =>
       LET id == req'.params.id
           i == IndexOf(data.users, id)
       IN IF i # 0
          THEN /\ res' = Ok(data.users[i])
               /\ data'.users = Without(data.users, id)
               /\ Len(data'.users) = Len(data.users) - 1
               /\ data'.roles = data.roles
               /\ GetById(data', id) = Message(404, "User not found")
          ELSE /\ res' = Message(404, "User not found")
               /\ data' = data]_vars

\* The second seed user has just been deleted: the first is all that is left.
C21_Witness ==
  /\ Ran("DELETE", "/users/:id")
  /\ res.status = 200
  /\ req.params.id = U2
  /\ IdsIn(data.users) = {U1}
  /\ data.roles = rawData.roles

(***************************************************************************)
(* C22.  reset() replaces both collections at once with fresh copies of the *)
(* seed: after any sequence of mutating requests followed by reset(), users *)
(* and roles are field for field the seed data; no earlier mutation, an     *)
(* in-place update of a seed entity included, survives a reset.             *)
(***************************************************************************)
\* A step that changes the store while no request is being answered: the
\* reset handle has been called.
StoreReplaced == req = Idle /\ req' = Idle /\ data' # data

C22_ResetRestoresSeed ==
  [][StoreReplaced => (data'.users = rawData.users /\ data'.roles = rawData.roles)]_vars

\* One request has been answered, a POST that created an item, and the store
\* is the seed again.
C22_Witness ==
  /\ req = Idle
  /\ served = 1
  /\ issued = 1
  /\ data = rawData

(***************************************************************************)
(* C23.  Each request runs to completion, its injected delay included,      *)
(* before the next request's mutation is applied: when request A arrives    *)
(* before request B, A's effect on the store is applied before B's, for     *)
(* every speed profile and every pair of requests.                          *)
(***************************************************************************)
\* Requests are answered in the order of their arrival: the request answered
\* after `served` others is the one that arrived after `served` others.
C23_AppliedInArrivalOrder ==
  [][Answered => req'.n = served + 1]_vars

(***************************************************************************)
(* C24.  Absent fault injection, GET /users and GET /roles always respond   *)
(* 200 with a page envelope, for every reachable store state and every      *)
(* search term and page parameter: a listing request never responds 404 and *)
(* never fails, and a search matching nothing yields empty data with        *)
(* pages = 0.                                                               *)
(***************************************************************************)
\* The search of the request answered in this step has a term that occurs in
\* no declared field of any item of the collection.
NothingMatches ==
  LET search == Get(req'.query, "search")
      arr == IF req'.path = "/users" THEN data.users ELSE data.roles
      fields == IF req'.path = "/users" THEN {"first", "last"} ELSE {"name", "description"}
  IN /\ Truthy(search)
     /\ \A i \in 1..Len(arr) : \A f \in fields :
          \/ Nullish(arr[i][f])
          \/ ~includes(toLowerCase(toString(arr[i][f])), toLowerCase(search.v))

C24_ListingAlwaysAnswers200 ==
  [][(Handled("GET", "/users") \/ Handled("GET", "/roles")) =>
       /\ res'.status = 200
       /\ DOMAIN res'.body = {"data", "next", "prev", "pages"}
       /\ NothingMatches => (res'.body.data = <<>> /\ res'.body.pages = 0)]_vars

(***************************************************************************)
(* C25.  Identifiers are unique and immutable: in every reachable state no  *)
(* two users share an id and no two roles share an id, and no PATCH request *)
(* (whatever fields its body carries, id or createdAt included) changes the *)
(* id or createdAt of an existing user or role.                             *)
(***************************************************************************)
UniqueIds(arr) == \A i, j \in 1..Len(arr) : arr[i].id = arr[j].id => i = j

\* The id and createdAt of every item, position by position.
Identity(arr) == [i \in 1..Len(arr) |-> <<arr[i].id, arr[i].createdAt>>]

C25_IdsUniqueAndImmutable ==
  [][/\ UniqueIds(data.users) /\ UniqueIds(data.roles)
     /\ UniqueIds(data'.users) /\ UniqueIds(data'.roles)
     /\ (Handled("PATCH", "/users/:id") \/ Handled("PATCH", "/roles/:id")) =>
          /\ Identity(data'.users) = Identity(data.users)
          /\ Identity(data'.roles) = Identity(data.roles)]_vars

\* A PATCH of the first user whose body carries another user's id and a
\* createdAt has changed the user's first name, next to a created user.
C25_Witness ==
  /\ Ran("PATCH", "/users/:id")
  /\ res.status = 200
  /\ req.params.id = U1
  /\ req.body = [id |-> Str(U2), createdAt |-> Num(2), first |-> Str(Bo)]
  /\ res.body.first = Str(Bo)
  /\ res.body.id = U1
  /\ Len(data.users) = 3

(***************************************************************************)
(* C26.  Every request that reaches the server eventually receives exactly  *)
(* one response: after its latency delay elapses it is either answered 500  *)
(* by fault injection or handed to its route handler, which sends exactly   *)
(* one response; no request is left unanswered or answered twice, including *)
(* when reset() is called while the request is being delayed.               *)
(***************************************************************************)
\* The n-th request that arrived is being delayed / has its response.
Delayed(n) == \E i \in 1..Len(pending) : pending[i].req.n = n
Responded(n) == req # Idle /\ req.n = n /\ res # Idle

\* Arrival numbers are handed out once: those of the delayed requests are
\* distinct and lie between the requests answered so far and those arrived.
NumberedOnce ==
  /\ \A i, j \in 1..Len(pending) : pending[i].req.n = pending[j].req.n => i = j
  /\ \A i \in 1..Len(pending) : pending[i].req.n \in 1..Arrived

\* A step answers one request: a delayed one, which leaves `pending` with
\* it, or the one that arrives in this very step.  `pending` changes in no
\* other way than by an arrival, and a response is sent off as it is.
OneResponseEach ==
  /\ NumberedOnce /\ NumberedOnce'
  /\ Arrived' >= Arrived
  /\ Answered =>
       /\ res' # Idle
       /\ served' = served + 1
       /\ \/ \E i \in 1..Len(pending) : Fired(i) /\ req' = pending[i].req
          \/ pending' = pending /\ req'.n = Arrived + 1
       /\ res'.status = 500 \/ routed'
  /\ ~Answered =>
       /\ served' = served
       /\ \/ pending' = pending
          \/ /\ Len(pending') = Len(pending) + 1
             /\ SubSeq(pending', 1, Len(pending)) = pending
             /\ pending'[Len(pending')].req.n = Arrived + 1
             /\ req' = req /\ res' = res

C26_EveryRequestAnsweredOnce ==
  /\ [][OneResponseEach]_vars
  /\ \A n \in 1..MaxRequests : Delayed(n) ~> Responded(n)

\* The first request, a GET, is answered after the second one, a POST that
\* created a user; the store is the seed again, so reset() was called while
\* the GET was being delayed.
C26_Witness ==
  /\ Responded(1)
  /\ served = 2
  /\ issued = 1
  /\ data = rawData
  /\ req.method = "GET"
  /\ req.params.id = U1
  /\ res.status = 200

(***************************************************************************)
(* C27.  A PATCH /users/:id that responds 400 'Referenced role not found'   *)
(* (roleId resolves to no role) or 404 'User not found' leaves the store    *)
(* unchanged: the target user's first, last, roleId and updatedAt are the   *)
(* same as before the request, whatever other fields the body carries.      *)
(***************************************************************************)
C27_RefusedPatchChangesNothing ==
  [][(/\ Handled("PATCH", "/users/:id")
      /\ res' \in {Message(400, "Referenced role not found"),
                   Message(404, "User not found")}) => data' = data]_vars

(***************************************************************************)
(* C28.  In every reachable state, every stored role's isDefault is a       *)
(* boolean (true or false): POST /roles and PATCH /roles/:id never store a  *)
(* non-boolean isDefault value, whatever value the request body carries.    *)
(***************************************************************************)
C28_IsDefaultIsBoolean ==
  \A i \in 1..Len(data.roles) : data.roles[i].isDefault \in {Bool(TRUE), Bool(FALSE)}
====
